---------------------------- MODULE Spec2Model ----------------------------
(***************************************************************************)
(* AeroBot (src/app.py): the conversation menu of the Telegram bot, its    *)
(* input sanitizer and its three remote lookups, as a state machine.       *)
(*                                                                         *)
(* A text is a sequence of one-character strings.  A conversation is a     *)
(* (chat, user) pair, the key under which the ConversationHandler keeps    *)
(* the conversation state; user_data is kept per user and chat_data per    *)
(* chat.  The Application is built without concurrent updates, so an       *)
(* update is dispatched only when no handler is in flight.  A handler that *)
(* makes a lookup takes two steps, one up to the lookup and one from its   *)
(* answer on.  Sending a reply is taken to succeed.                        *)
(***************************************************************************)
EXTENDS Integers, Sequences, FiniteSets, TLC

----------------------------------------------------------------------------
(* Bounds of the model *)

\* longest short text typed by a user (longer ones come from LongTexts)
MaxLen == 1
\* the clock stops advancing at MaxTime
MaxTime == 5
PureLen == 3
ContentLen == 5

----------------------------------------------------------------------------
(* Configuration, src/app.py:42-51 *)

MAX_CITY_LENGTH == 50
MAX_QUESTION_LENGTH == 200
\* timedelta(seconds=5) of rate_limit_user
COOLDOWN == 5

\* conversation states; END is ConversationHandler.END, the state of a
\* conversation that has no entry in the handler's table
MAIN_MENU == "MAIN_MENU"
WEATHER_LOCATION == "WEATHER_LOCATION"
ASK_QUESTION == "ASK_QUESTION"
EVENTS_LOCATION == "EVENTS_LOCATION"
END == "END"

States == {MAIN_MENU, WEATHER_LOCATION, ASK_QUESTION, EVENTS_LOCATION}
AwaitingStates == {WEATHER_LOCATION, ASK_QUESTION, EVENTS_LOCATION}

----------------------------------------------------------------------------
(* Characters, as Python's re module classifies them *)

\* \w : letters (of any script), digits and the underscore; "n~" is the one
\* character n with a tilde, a letter outside ASCII
WordChars == {"a", "b", "C", "0", "_", "n~"}
\* \s, and what str.strip() removes
SpaceChars == {" ", "\t", "\n"}
\* the literal characters of the class [^\w\s,.!?-]
CleanPunct == {",", ".", "!", "?", "-"}
\* the literal characters of the class [\w\s\-,.]
CityPunct == {"-", ",", "."}

IsSpace(c) == c \in SpaceChars

\* the characters users type in this model
Alphabet == {"a", " ", "@", "!"}

\* the character c, n times
Rep(c, n) == [i \in 1..n |-> c]

ShortTexts == UNION {[1..n -> Alphabet] : n \in 1..MaxLen}

\* a city of two words, and a city with a character that is removed
SampleTexts == {<<"a", " ", "a">>, <<"a", "@", "a">>}

\* texts at and around the two length limits
LongTexts ==
    {Rep("a", n) : n \in {MAX_CITY_LENGTH, MAX_CITY_LENGTH + 1, 60,
                          MAX_QUESTION_LENGTH, MAX_QUESTION_LENGTH + 1}}

\* the text of a Telegram text message is never empty (filters.TEXT)
Texts == ShortTexts \cup SampleTexts \cup LongTexts

\* the texts the sanitizer is called with directly: every text of up to
\* PureLen characters, and texts at and around the two length limits
PureAlphabet == {"a", " ", "@", "!", "_", "\t", "n~"}
PureTexts ==
    UNION {[1..n -> PureAlphabet] : n \in 0..PureLen}
        \cup LongTexts
        \cup {Rep(" ", MAX_QUESTION_LENGTH), Rep(" ", MAX_QUESTION_LENGTH + 1),
              <<" ">> \o Rep("a", MAX_QUESTION_LENGTH - 1),
              <<" ">> \o Rep("a", MAX_QUESTION_LENGTH)}

----------------------------------------------------------------------------
(* Input sanitizer, src/app.py:77-96 *)

\* str.strip(): drop leading and trailing whitespace
Strip(s) ==
    LET keep == {i \in 1..Len(s) : ~IsSpace(s[i])}
    IN  IF keep = {} THEN << >>
        ELSE LET lo == CHOOSE i \in keep : \A j \in 1..(i - 1) : IsSpace(s[j])
                 hi == CHOOSE i \in keep : \A j \in (i + 1)..Len(s) : IsSpace(s[j])
             IN  SubSeq(s, lo, hi)

\* re.sub(r'[^\w\s,.!?-]', '', s)
RemoveDisallowed(s) ==
    LET Allowed(c) == c \in WordChars \cup SpaceChars \cup CleanPunct
    IN  SelectSeq(s, Allowed)

\* re.sub(r'\s+', ' ', s)
CollapseSpaces(s) ==
    LET marked == [i \in 1..Len(s) |->
                      [c |-> IF IsSpace(s[i]) THEN " " ELSE s[i],
                       first |-> ~(IsSpace(s[i]) /\ i > 1 /\ IsSpace(s[i - 1]))]]
        First(m) == m.first
        kept == SelectSeq(marked, First)
    IN  [j \in 1..Len(kept) |-> kept[j].c]

clean_input(text) == CollapseSpaces(RemoveDisallowed(Strip(text)))

\* variant: the length is compared with the question's limit
validate_city_name_question_limit(city) ==
    /\ ~(Len(city) > MAX_QUESTION_LENGTH)
    /\ Len(city) >= 1
    /\ \A i \in 1..Len(city) : city[i] \in WordChars \cup SpaceChars \cup CityPunct

\* variant: the pattern is clean_input's character class
validate_city_name_clean_class(city) ==
    /\ ~(Len(city) > MAX_CITY_LENGTH)
    /\ Len(city) >= 1
    /\ \A i \in 1..Len(city) : city[i] \in WordChars \cup SpaceChars \cup CleanPunct

\* len(city) > MAX_CITY_LENGTH, then re.match(r'^[\w\s\-,.]+$', city)
validate_city_name(city) ==
    /\ ~(Len(city) > MAX_CITY_LENGTH)
    /\ Len(city) >= 1
    /\ \A i \in 1..Len(city) : city[i] \in WordChars \cup SpaceChars \cup CityPunct

\* variant: a question of exactly the limit is refused
validate_question_at_limit(question) ==
    /\ ~(Len(question) >= MAX_QUESTION_LENGTH)
    /\ Strip(question) /= << >>

\* len(question) > MAX_QUESTION_LENGTH, then not question.strip()
validate_question(question) ==
    /\ ~(Len(question) > MAX_QUESTION_LENGTH)
    /\ Strip(question) /= << >>

----------------------------------------------------------------------------
(* Conversations *)

Chats == {"c1", "c2"}
Users == {"u1"}
\* the ConversationHandler's key: (chat id, user id)
Convs == Chats \X Users
\* the conversation of the single-conversation specification
OneConv == {<<"c1", "u1">>}

\* callback_data of the buttons the bot sends, and one it never sends
PH_LAWS == {"law_waste", "law_water", "law_air", "law_climate"}
ButtonData == {"back", "weather", "ask", "tips", "events", "water", "disaster",
               "laws", "about", "prep_flood", "law_air", "tomorrow"}

----------------------------------------------------------------------------
(* Lookup gateway *)

\* the fields of the Kaiz payload that weather_location_handler reads
RenderedFields == {"location", "day", "date", "observationtime", "skytext",
                   "temperature", "feelslike", "humidity", "winddisplay",
                   "forecast"}

\* payloads the provider may answer with; temperatures in tenths of a degree
Payloads ==
    { [fields |-> RenderedFields, temperature |-> 312, feelslike |-> 372,
       humidity |-> 70],
      [fields |-> {"temperature", "humidity"}, temperature |-> 312,
       feelslike |-> 312, humidity |-> 70] }

WeatherOutcomes ==
    {[kind |-> "ok", data |-> <<p>>] : p \in Payloads}
    \cup {[kind |-> k, data |-> << >>] :
             k \in {"timeout", "http_error", "no_result", "bad_json"}}

\* variant: an answer without the "0" entry is returned as it is
get_weather_data_unchecked(outcome) ==
    IF outcome.kind = "ok" THEN outcome.data
    ELSE IF outcome.kind = "no_result"
         THEN <<[fields |-> {}, temperature |-> 0, feelslike |-> 0, humidity |-> 0]>>
         ELSE << >>

\* WeatherService.get_weather_data: the payload, or None (the empty sequence)
get_weather_data(outcome) ==
    IF outcome.kind = "ok" THEN outcome.data ELSE << >>

\* the q parameter get_weather_data sends for a city
weather_query(city) ==
    clean_input([i \in 1..Len(city) |-> IF city[i] = " " THEN "+" ELSE city[i]])

\* lengths of the "response" field of a DeepSeek answer
ContentLens == {10, 1500, 1501}

AIOutcomes ==
    {[kind |-> "ok", len |-> n] : n \in ContentLens}
    \cup {[kind |-> k, len |-> 0] :
             k \in {"timeout", "request_error", "no_response_key", "bad_json"}}

\* AIService.fetch_ai_response: the text it returns, as (which text, length of
\* a provider's content, whether "..." was appended)
fetch_ai_response(outcome, max_tokens) ==
    CASE outcome.kind = "ok" ->
            IF outcome.len > max_tokens
            THEN [msg |-> "content", len |-> max_tokens + 3, ellipsis |-> TRUE]
            ELSE [msg |-> "content", len |-> outcome.len, ellipsis |-> FALSE]
      [] outcome.kind = "no_response_key" ->
            [msg |-> "ai_no_response", len |-> 0, ellipsis |-> FALSE]
      [] outcome.kind = "timeout" ->
            [msg |-> "ai_too_long", len |-> 0, ellipsis |-> FALSE]
      [] outcome.kind = "request_error" ->
            [msg |-> "ai_unavailable", len |-> 0, ellipsis |-> FALSE]
      [] OTHER ->
            [msg |-> "ai_unexpected", len |-> 0, ellipsis |-> FALSE]

\* re.sub(r'\*\*(.*?)\*\*', r'*\1*', content) from position from on: the
\* leftmost "**" that a later "**" closes with no newline between, and the
\* nearest such closing, become single asterisks
RECURSIVE sub_bold(_, _)
sub_bold(s, from) ==
    LET IsStars(i) == s[i] = "*" /\ s[i + 1] = "*"
        Closes(i) == {j \in (i + 2)..(Len(s) - 1) :
                        IsStars(j) /\ \A k \in (i + 2)..(j - 1) : s[k] /= "\n"}
        opens == {i \in from..(Len(s) - 3) : IsStars(i) /\ Closes(i) /= {}}
    IN  IF opens = {} THEN SubSeq(s, from, Len(s))
        ELSE LET i == CHOOSE x \in opens : \A y \in opens : x <= y
                 j == CHOOSE x \in Closes(i) : \A y \in Closes(i) : x <= y
             IN  SubSeq(s, from, i - 1) \o <<"*">> \o SubSeq(s, i + 2, j - 1)
                     \o <<"*">> \o sub_bold(s, j + 2)

\* re.sub(r'\n{3,}', '\n\n', content)
sub_newlines(s) ==
    LET marked == [i \in 1..Len(s) |->
                      [c |-> s[i],
                       keep |-> ~(/\ i > 2
                                  /\ s[i] = "\n" /\ s[i - 1] = "\n" /\ s[i - 2] = "\n")]]
        Keep(m) == m.keep
        kept == SelectSeq(marked, Keep)
    IN  [j \in 1..Len(kept) |-> kept[j].c]

\* variant: the marker is counted within the budget
truncate_within_budget(content, max_tokens) ==
    IF Len(content) > max_tokens
    THEN SubSeq(content, 1, max_tokens - 3) \o <<".", ".", ".">>
    ELSE content

\* content[:max_tokens] + "..." when len(content) > max_tokens
truncate(content, max_tokens) ==
    IF Len(content) > max_tokens
    THEN SubSeq(content, 1, max_tokens) \o <<".", ".", ".">>
    ELSE content

\* fetch_ai_response on a successful answer, src/app.py:198-208: the text
\* returned for the content of the "response" field
format_response(content, max_tokens) ==
    truncate(sub_newlines(sub_bold(content, 1)), max_tokens)

\* max_tokens of get_eco_tips, get_water_tips, get_disaster_prep and ask_ai
MaxTokens(h) ==
    CASE h = "ask" -> 1500
      [] h = "prep" -> 1200
      [] OTHER -> 1000

NewsOutcomes == {"articles", "no_articles", "url_error", "bad_json", "other_error"}

\* get_climate_events: which text it returns
get_climate_events(outcome) ==
    CASE outcome = "articles" -> "news"
      [] outcome = "no_articles" -> "news_none_found"
      [] outcome = "url_error" -> "news_could_not_fetch"
      [] outcome = "bad_json" -> "news_error_processing"
      [] OTHER -> "news_error"

\* texts with which a lookup reports that it failed
ApologyTexts == {"ai_no_response", "ai_too_long", "ai_unavailable", "ai_unexpected",
                 "news_none_found", "news_could_not_fetch",
                 "news_error_processing", "news_error"}

\* the exception the remote call raises inside a binding's try block, by how
\* the call ended ("none": the body runs to its return)
Raises(kind) ==
    CASE kind = "timeout" -> "Timeout"
      [] kind = "http_error" -> "HTTPError"
      [] kind = "request_error" -> "ConnectionError"
      [] kind = "bad_json" -> "JSONDecodeError"
      [] kind = "url_error" -> "URLError"
      [] kind = "other_error" -> "TypeError"
      [] OTHER -> "none"

\* isinstance(exc, cls) for the classes the except clauses name
IsInstance(exc, cls) ==
    \/ cls = "Exception"
    \/ exc = cls
    \/ cls = "RequestException" /\ exc \in {"Timeout", "HTTPError", "ConnectionError"}

\* variant: the bindings without their last clause, except Exception
ExceptClauses_no_catch_all(cap) ==
    CASE cap = "ai" -> {"Timeout", "RequestException"}
      [] cap = "weather" -> {}
      [] OTHER -> {"URLError", "JSONDecodeError"}

\* the except clauses of fetch_ai_response, get_weather_data and
\* get_climate_events
ExceptClauses(cap) ==
    CASE cap = "ai" -> {"Timeout", "RequestException", "Exception"}
      [] cap = "weather" -> {"Exception"}
      [] OTHER -> {"URLError", "JSONDecodeError", "Exception"}

\* the exception leaves the binding and reaches the handler
Propagates(cap, kind) ==
    /\ Raises(kind) /= "none"
    /\ \A cls \in ExceptClauses(cap) : ~IsInstance(Raises(kind), cls)

\* the timeout a binding gives its request, in seconds: timeout=15 for the
\* AI, timeout=10 for the weather, none for urlopen
LookupTimeout(cap) ==
    CASE cap = "ai" -> <<15>>
      [] cap = "weather" -> <<10>>
      [] OTHER -> << >>

\* retries=5 of retry_session
RETRIES == 5

\* variant: the AI request goes through retry_session
SessionOf_ai_retries(cap) ==
    CASE cap = "ai" -> "retry_session"
      [] cap = "weather" -> "requests"
      [] OTHER -> "urllib"

\* what sends a binding's request: requests.get for the AI and the weather,
\* urllib.request.urlopen for the news; retry_session serves the Open-Meteo
\* client only, which no binding uses
SessionOf(cap) ==
    CASE cap = "ai" -> "requests"
      [] cap = "weather" -> "requests"
      [] OTHER -> "urllib"

\* the requests sent for one lookup: retry_session repeats a request that
\* failed in transport or with a server error, the others send one
Attempts(cap, kind) ==
    IF SessionOf(cap) = "retry_session"
          /\ kind \in {"timeout", "request_error", "http_error"}
    THEN 1 + RETRIES
    ELSE 1

\* WeatherService.get_heat_advisory, temperatures in tenths of a degree
get_heat_advisory(temp, feelslike) ==
    LET temp_diff == feelslike - temp
    IN  IF temp >= 400 THEN "Extreme Heat Danger"
        ELSE IF temp >= 350
             THEN (IF temp_diff > 50 THEN "High Heat & Humidity" ELSE "High Heat")
        ELSE IF temp >= 300
             THEN (IF temp_diff > 50 THEN "Hot & Humid" ELSE "Warm")
        ELSE "Mild"

----------------------------------------------------------------------------
(* State *)

VARIABLES
    conv_state,   \* ConversationHandler's table: conversation -> state, or END
    user_data,    \* context.user_data of each user
    chat_data,    \* context.chat_data of each chat: the keys it holds
    now,          \* datetime.now(), in seconds
    update,       \* the update dispatched last and how far its handler got
    last_call,    \* per conversation, when the handler of its latest lookup
                  \* was dispatched: {} or {t}
    probe         \* a direct call of clean_input, of a validator or of
                  \* fetch_ai_response: the text given and what came back

vars == <<conv_state, user_data, chat_data, now, update, last_call, probe>>

\* an optional value is a sequence of length 0 (None) or 1
Some(x) == <<x>>
Absent == << >>

----------------------------------------------------------------------------
(* Replies: which text, which keyboard, and the values the text shows *)

NoBody == [none |-> TRUE]
Reply(msg, markup, body) == [msg |-> msg, markup |-> markup, body |-> body]

\* the rate limiter, src/app.py:98-107: whether the user is limited, and the
\* user's data afterwards.  No handler calls it.
rate_limit_user(ud, t) ==
    IF ud.last_request /= Absent /\ t - ud.last_request[1] < COOLDOWN
    THEN [limited |-> TRUE, user_data |-> ud]
    ELSE [limited |-> FALSE, user_data |-> [ud EXCEPT !.last_request = Some(t)]]

\* variant: the temperature line shows the feels-like value twice
weather_msg_feelslike(p) ==
    Reply("weather", "refresh_or_menu",
          [temperature |-> p.feelslike,
           feelslike |-> p.feelslike,
           humidity |-> p.humidity,
           advisory |-> get_heat_advisory(p.temperature, p.feelslike)])

\* the message weather_location_handler formats from a payload
weather_msg(p) ==
    Reply("weather", "refresh_or_menu",
          [temperature |-> p.temperature,
           feelslike |-> p.feelslike,
           humidity |-> p.humidity,
           advisory |-> get_heat_advisory(p.temperature, p.feelslike)])

\* error_handler's reply, src/app.py:940-948
ErrorReply == Reply("unexpected_error", "main_menu", NoBody)

\* update.phase: "none" before the first update, "lookup" while the handler is
\* suspended on a lookup, "done" once it returned or raised, "ignored" when no
\* handler took the update
NoUpdate ==
    [conv |-> <<"-", "-">>, event |-> "none", data |-> "", text |-> << >>,
     from |-> END, phase |-> "none", raised |-> FALSE, reply |-> Absent,
     h |-> "", cap |-> "", arg |-> << >>, query |-> << >>, answer |-> "",
     attempts |-> 0]

\* an update handled without a lookup
Handled(k, event, data, text, reply) ==
    [conv |-> k, event |-> event, data |-> data, text |-> text,
     from |-> conv_state[k], phase |-> "done", raised |-> FALSE, reply |-> reply,
     h |-> "", cap |-> "", arg |-> << >>, query |-> << >>, answer |-> "",
     attempts |-> 0]

\* an update whose handler is suspended on a lookup: h names the call site,
\* cap the capability, arg the handler's argument, query what is sent, answer
\* how the remote call ended, attempts the requests sent for it
Suspended(k, event, data, text, h, cap, arg, query) ==
    [conv |-> k, event |-> event, data |-> data, text |-> text,
     from |-> conv_state[k], phase |-> "lookup", raised |-> FALSE, reply |-> Absent,
     h |-> h, cap |-> cap, arg |-> arg, query |-> query, answer |-> "",
     attempts |-> 0]

\* an update no handler takes
Dropped(k, event, data, text) ==
    [Handled(k, event, data, text, Absent) EXCEPT !.phase = "ignored"]

\* the suspended handler got the answer and returned or raised
Finished(answer, raised, reply) ==
    [update EXCEPT !.phase = "done", !.answer = answer, !.raised = raised,
                   !.reply = reply, !.attempts = Attempts(update.cap, answer)]

\* no direct call has been made
NoProbe == [fn |-> "none", text |-> << >>, cleaned |-> << >>, twice |-> << >>,
            valid |-> FALSE, max_tokens |-> 0]

Init ==
    /\ conv_state = [k \in Convs |-> END]
    /\ user_data = [u \in Users |-> [weather_data |-> Absent, last_request |-> Absent]]
    /\ chat_data = [c \in Chats |-> {}]
    /\ now = 0
    /\ update = NoUpdate
    /\ last_call = [k \in Convs |-> {}]
    /\ probe = NoProbe

----------------------------------------------------------------------------
(* Dispatch, src/app.py:905-938.  Updates are processed one after the other; *)
(* /start is an entry point and a fallback, /cancel a fallback, and a state  *)
(* lists the handlers that take its updates.                                 *)

\* variant: updates are handled concurrently
Idle_concurrent == TRUE

\* no handler is in flight
Idle == update.phase /= "lookup"

\* show_typing, src/app.py:72-75: the seconds a call site sleeps before its
\* lookup (the default 1.0, or the 2.0 the question and events handlers pass)
TypingDelay(h) == IF h \in {"ask", "events"} THEN 2 ELSE 1

\* the clock has room for the handler's sleep
CanSleep(h) == now + TypingDelay(h) <= MaxTime

\* the handler suspended at t has slept
Slept == \A t \in last_call[update.conv] : now >= t + TypingDelay(update.h)

\* variant: start returns the state of the weather prompt
StartNext_weather == WEATHER_LOCATION

\* the state start returns, src/app.py:391
StartNext == MAIN_MENU

\* start, src/app.py:368-391
Start(k) ==
    /\ Idle
    /\ chat_data' = [chat_data EXCEPT ![k[1]] = {}]
    /\ update' = Handled(k, "start", "", << >>,
                         Some(Reply("welcome", "main_menu", NoBody)))
    /\ conv_state' = [conv_state EXCEPT ![k] = StartNext]
    /\ UNCHANGED <<user_data, now, last_call, probe>>

\* variant: cancel returns to the main menu
CancelNext_menu == MAIN_MENU

\* the state cancel returns, src/app.py:738
CancelNext == END

\* cancel, src/app.py:732-738
Cancel(k) ==
    /\ Idle
    /\ conv_state[k] /= END
    /\ update' = Handled(k, "cancel", "", << >>,
                         Some(Reply("farewell", "main_menu", NoBody)))
    /\ conv_state' = [conv_state EXCEPT ![k] = CancelNext]
    /\ UNCHANGED <<user_data, chat_data, now, last_call, probe>>

\* the buttons main_menu_handler answers without a lookup: the reply
MenuReply(d) ==
    CASE d = "back" -> Some(Reply("main_menu", "main_menu", NoBody))
      [] d = "weather" -> Some(Reply("enter_city_weather", "back_button", NoBody))
      [] d = "ask" -> Some(Reply("enter_question", "back_button", NoBody))
      [] d = "events" -> Some(Reply("enter_city_events", "back_button", NoBody))
      [] d = "disaster" -> Some(Reply("select_disaster", "disaster_menu", NoBody))
      [] d = "laws" -> Some(Reply("select_law", "laws_menu", NoBody))
      [] d = "about" -> Some(Reply("about", "menu_button", NoBody))
      [] d \in PH_LAWS -> Some(Reply("law", "laws_or_menu", [law |-> d]))
      [] OTHER -> Absent

\* variant: the events branch returns the weather branch's state
MenuNext_events_as_weather(d) ==
    CASE d = "weather" -> WEATHER_LOCATION
      [] d = "ask" -> ASK_QUESTION
      [] d = "events" -> WEATHER_LOCATION
      [] OTHER -> MAIN_MENU

\* variant: a branch that only renders content ends the conversation
MenuNext_content_ends(d) ==
    CASE d = "weather" -> WEATHER_LOCATION
      [] d = "ask" -> ASK_QUESTION
      [] d = "events" -> EVENTS_LOCATION
      [] OTHER -> END

\* the state main_menu_handler returns
MenuNext(d) ==
    CASE d = "weather" -> WEATHER_LOCATION
      [] d = "ask" -> ASK_QUESTION
      [] d = "events" -> EVENTS_LOCATION
      [] OTHER -> MAIN_MENU

\* query.data.startswith('prep_'): the six buttons of disaster_menu, and a
\* callback_data of that form which no keyboard sends
IsPrep(d) == d \in {"prep_wildfire", "prep_typhoon", "prep_flood",
                    "prep_earthquake", "prep_heatwave", "prep_smog",
                    "prep_other"}

\* the buttons main_menu_handler answers with an AI completion
MenuLookup(d) == d \in {"tips", "water"} \/ IsPrep(d)

\* variant: the awaiting states list no handler for the back button
TakesButton_menu_only(state, d) == state = MAIN_MENU

\* variant: every state lists main_menu_handler without a pattern
TakesButton_any_state(state, d) == state \in States

\* variant: main_menu_handler is an entry point too
TakesButton_entry_point(state, d) ==
    \/ state \in {END, MAIN_MENU}
    \/ state \in AwaitingStates /\ d = "back"

\* whether the state's handler list takes a button press
TakesButton(state, d) ==
    \/ state = MAIN_MENU
    \/ state \in AwaitingStates /\ d = "back"

\* main_menu_handler, src/app.py:393-529
Button(k, d) ==
    /\ Idle
    /\ TakesButton(conv_state[k], d)
    /\ IF MenuLookup(d)
       THEN /\ CanSleep(IF IsPrep(d) THEN "prep" ELSE d)
            /\ update' = Suspended(k, "button", d, << >>,
                                   IF IsPrep(d) THEN "prep" ELSE d, "ai", << >>, << >>)
            /\ last_call' = [last_call EXCEPT ![k] = {now}]
            /\ UNCHANGED conv_state
       ELSE /\ update' = Handled(k, "button", d, << >>, MenuReply(d))
            /\ conv_state' = [conv_state EXCEPT ![k] = MenuNext(d)]
            /\ UNCHANGED last_call
    /\ UNCHANGED <<user_data, chat_data, now, probe>>

----------------------------------------------------------------------------
(* Text handlers: the part before the lookup *)

\* variant: the city is cleaned but not validated
weather_input_unchecked(t) == [accepted |-> TRUE, value |-> clean_input(t)]

\* variant: the text as received is validated, then cleaned
weather_input_raw_first(t) ==
    [accepted |-> validate_city_name(t), value |-> clean_input(t)]

\* weather_location_handler, src/app.py:302-304: the city it goes on with and
\* whether it goes on
weather_input(t) ==
    LET city == clean_input(t)
    IN  [accepted |-> validate_city_name(city), value |-> city]

\* variant: the question is validated before it is cleaned
question_input_raw(t) ==
    [accepted |-> validate_question(t), value |-> clean_input(t)]

\* ask_question_handler, src/app.py:683-685
question_input(t) ==
    LET question == clean_input(t)
    IN  [accepted |-> validate_question(question), value |-> question]

\* events_location_handler, src/app.py:709-711
events_input(t) ==
    LET location == clean_input(t)
    IN  [accepted |-> ~(location /= << >> /\ ~validate_city_name(location)),
         value |-> location]

\* variant: a weather miss returns to the main menu, as the other lookups do
WeatherMissNext_menu == MAIN_MENU

\* the states the handlers return
WeatherInvalidNext == WEATHER_LOCATION
WeatherMissNext == WEATHER_LOCATION
WeatherDoneNext == MAIN_MENU
QuestionInvalidNext == ASK_QUESTION
QuestionDoneNext == MAIN_MENU
EventsInvalidNext == EVENTS_LOCATION
EventsDoneNext == MAIN_MENU

\* weather_location_handler up to the lookup, src/app.py:299-314
WeatherText(k, t) ==
    /\ Idle
    /\ conv_state[k] = WEATHER_LOCATION
    /\ LET in == weather_input(t)
       IN  IF ~in.accepted
           THEN /\ update' = Handled(k, "text", "", t,
                                Some(Reply("invalid_city", "back_button", NoBody)))
                /\ conv_state' = [conv_state EXCEPT ![k] = WeatherInvalidNext]
                /\ UNCHANGED last_call
           ELSE /\ CanSleep("weather")
                /\ update' = Suspended(k, "text", "", t, "weather", "weather",
                                       in.value, weather_query(in.value))
                /\ last_call' = [last_call EXCEPT ![k] = {now}]
                /\ UNCHANGED conv_state
    /\ UNCHANGED <<user_data, chat_data, now, probe>>

\* ask_question_handler up to the lookup, src/app.py:680-694
QuestionText(k, t) ==
    /\ Idle
    /\ conv_state[k] = ASK_QUESTION
    /\ LET in == question_input(t)
       IN  IF ~in.accepted
           THEN /\ update' = Handled(k, "text", "", t,
                                Some(Reply("invalid_question", "back_button", NoBody)))
                /\ conv_state' = [conv_state EXCEPT ![k] = QuestionInvalidNext]
                /\ UNCHANGED last_call
           ELSE /\ CanSleep("ask")
                /\ update' = Suspended(k, "text", "", t, "ask", "ai",
                                       in.value, in.value)
                /\ last_call' = [last_call EXCEPT ![k] = {now}]
                /\ UNCHANGED conv_state
    /\ UNCHANGED <<user_data, chat_data, now, probe>>

\* events_location_handler up to the lookup, src/app.py:706-720
EventsText(k, t) ==
    /\ Idle
    /\ conv_state[k] = EVENTS_LOCATION
    /\ LET in == events_input(t)
       IN  IF ~in.accepted
           THEN /\ update' = Handled(k, "text", "", t,
                                Some(Reply("invalid_city", "back_button", NoBody)))
                /\ conv_state' = [conv_state EXCEPT ![k] = EventsInvalidNext]
                /\ UNCHANGED last_call
           ELSE /\ CanSleep("events")
                /\ update' = Suspended(k, "text", "", t, "events", "news",
                                       in.value, in.value)
                /\ last_call' = [last_call EXCEPT ![k] = {now}]
                /\ UNCHANGED conv_state
    /\ UNCHANGED <<user_data, chat_data, now, probe>>

----------------------------------------------------------------------------
(* The handlers from the lookup's answer on *)

\* the remote service of the lookup in flight will never answer
NoAnswer ==
    /\ update.phase = "lookup"
    /\ update.answer = ""
    /\ update' = [update EXCEPT !.answer = "no_answer"]
    /\ UNCHANGED <<conv_state, user_data, chat_data, now, last_call, probe>>

\* the remote call can end this way: when no answer comes, it ends only by
\* the request's timeout, if it has one
Answers(kind) ==
    update.answer = "no_answer"
        => (LookupTimeout(update.cap) /= << >> /\ kind = "timeout")

\* weather_location_handler from the lookup on, src/app.py:314-364.  A payload
\* that lacks a field the message reads raises KeyError after the payload was
\* stored: the conversation keeps its state and error_handler answers.
WeatherReturn(o) ==
    /\ update.phase = "lookup"
    /\ update.h = "weather"
    /\ Slept
    /\ Answers(o.kind)
    /\ LET k == update.conv
           weather_data == get_weather_data(o)
       IN  IF Propagates(update.cap, o.kind)
           THEN /\ update' = Finished(o.kind, TRUE, Some(ErrorReply))
                /\ UNCHANGED <<conv_state, user_data>>
           ELSE IF weather_data = Absent
           THEN /\ update' = Finished(o.kind, FALSE,
                       Some(Reply("weather_not_found", "back_button",
                                  [city |-> update.arg])))
                /\ conv_state' = [conv_state EXCEPT ![k] = WeatherMissNext]
                /\ UNCHANGED user_data
           ELSE /\ user_data' = [user_data EXCEPT ![k[2]].weather_data = weather_data]
                /\ IF RenderedFields \subseteq weather_data[1].fields
                   THEN /\ update' = Finished(o.kind, FALSE,
                                              Some(weather_msg(weather_data[1])))
                        /\ conv_state' = [conv_state EXCEPT ![k] = WeatherDoneNext]
                   ELSE /\ update' = Finished(o.kind, TRUE, Some(ErrorReply))
                        /\ UNCHANGED conv_state
    /\ UNCHANGED <<chat_data, now, last_call, probe>>

\* the keyboard sent with an AI text
AIMarkup(h) ==
    CASE h = "ask" -> "ask_or_menu"
      [] h = "tips" -> "tips_or_menu"
      [] h = "water" -> "water_or_menu"
      [] OTHER -> "disaster_or_menu"

\* ask_question_handler from the answer on, src/app.py:694-702, and the tips,
\* water and prep_ branches of main_menu_handler, src/app.py:422-506
AIReturn(o) ==
    /\ update.phase = "lookup"
    /\ update.cap = "ai"
    /\ Slept
    /\ Answers(o.kind)
    /\ LET answer == fetch_ai_response(o, MaxTokens(update.h))
       IN  IF Propagates(update.cap, o.kind)
           THEN /\ update' = Finished(o.kind, TRUE, Some(ErrorReply))
                /\ UNCHANGED conv_state
           ELSE /\ update' = Finished(o.kind, FALSE,
                       Some(Reply(answer.msg, AIMarkup(update.h),
                                  [len |-> answer.len, ellipsis |-> answer.ellipsis])))
                /\ conv_state' = [conv_state EXCEPT ![update.conv] =
                       IF update.h = "ask" THEN QuestionDoneNext ELSE MAIN_MENU]
    /\ UNCHANGED <<user_data, chat_data, now, last_call, probe>>

\* events_location_handler from the news on, src/app.py:720-728
NewsReturn(o) ==
    /\ update.phase = "lookup"
    /\ update.cap = "news"
    /\ Slept
    /\ Answers(o)
    /\ IF Propagates(update.cap, o)
       THEN /\ update' = Finished(o, TRUE, Some(ErrorReply))
            /\ UNCHANGED conv_state
       ELSE /\ update' = Finished(o, FALSE,
                   Some(Reply(get_climate_events(o), "events_or_menu", NoBody)))
            /\ conv_state' = [conv_state EXCEPT ![update.conv] = EventsDoneNext]
    /\ UNCHANGED <<user_data, chat_data, now, last_call, probe>>

----------------------------------------------------------------------------
(* Updates no handler takes, and the clock *)

\* a button press the conversation's state has no handler for
IgnoredButton(k, d) ==
    /\ Idle
    /\ ~TakesButton(conv_state[k], d)
    /\ update' = Dropped(k, "button", d, << >>)
    /\ UNCHANGED <<conv_state, user_data, chat_data, now, last_call, probe>>

\* a text message outside the three awaiting states
IgnoredText(k, t) ==
    /\ Idle
    /\ conv_state[k] \notin AwaitingStates
    /\ update' = Dropped(k, "text", "", t)
    /\ UNCHANGED <<conv_state, user_data, chat_data, now, last_call, probe>>

\* /cancel for a conversation that is not in the table
IgnoredCancel(k) ==
    /\ Idle
    /\ conv_state[k] = END
    /\ update' = Dropped(k, "cancel", "", << >>)
    /\ UNCHANGED <<conv_state, user_data, chat_data, now, last_call, probe>>

Tick ==
    /\ now < MaxTime
    /\ now' = now + 1
    /\ UNCHANGED <<conv_state, user_data, chat_data, update, last_call, probe>>

\* the steps of the conversations K
NextOf(K) ==
    \/ \E k \in K : Start(k)
    \/ \E k \in K : Cancel(k)
    \/ \E k \in K, d \in ButtonData : Button(k, d)
    \/ \E k \in K, t \in Texts : WeatherText(k, t)
    \/ \E k \in K, t \in Texts : QuestionText(k, t)
    \/ \E k \in K, t \in Texts : EventsText(k, t)
    \/ \E o \in WeatherOutcomes : WeatherReturn(o)
    \/ \E o \in AIOutcomes : AIReturn(o)
    \/ \E o \in NewsOutcomes : NewsReturn(o)
    \/ NoAnswer
    \/ \E k \in K, d \in ButtonData : IgnoredButton(k, d)
    \/ \E k \in K, t \in Texts : IgnoredText(k, t)
    \/ \E k \in K : IgnoredCancel(k)
    \/ Tick

\* one user talking to the bot in one chat
Next == NextOf(OneConv)

Spec == Init /\ [][Next]_vars

----------------------------------------------------------------------------
(* One user talking to the bot in two chats, with a few inputs: a valid and *)
(* an invalid text, and the buttons that lead to a prompt or to a lookup     *)

FewTexts == {<<"a">>, <<"@">>}
FewButtons == {"back", "weather", "ask", "events", "tips"}

TwoNext ==
    \/ \E k \in Convs : Start(k)
    \/ \E k \in Convs : Cancel(k)
    \/ \E k \in Convs, d \in FewButtons : Button(k, d)
    \/ \E k \in Convs, t \in FewTexts : WeatherText(k, t)
    \/ \E k \in Convs, t \in FewTexts : QuestionText(k, t)
    \/ \E k \in Convs, t \in FewTexts : EventsText(k, t)
    \/ \E o \in WeatherOutcomes : WeatherReturn(o)
    \/ \E o \in AIOutcomes : AIReturn(o)
    \/ \E o \in NewsOutcomes : NewsReturn(o)
    \/ NoAnswer
    \/ \E k \in Convs, d \in FewButtons : IgnoredButton(k, d)
    \/ \E k \in Convs, t \in FewTexts : IgnoredText(k, t)
    \/ \E k \in Convs : IgnoredCancel(k)
    \/ Tick

TwoSpec == Init /\ [][TwoNext]_vars

----------------------------------------------------------------------------
(* The sanitizer called directly, one text at a time *)

PureInit ==
    /\ conv_state = [k \in Convs |-> END]
    /\ user_data = [u \in Users |-> [weather_data |-> Absent, last_request |-> Absent]]
    /\ chat_data = [c \in Chats |-> {}]
    /\ now = 0
    /\ update = NoUpdate
    /\ last_call = [k \in Convs |-> {}]
    /\ \E t \in PureTexts : probe = [NoProbe EXCEPT !.text = t]

\* text = clean_input(text)
CallClean ==
    /\ probe.fn = "none"
    /\ probe' = [probe EXCEPT !.fn = "clean_input",
                              !.cleaned = clean_input(probe.text)]
    /\ UNCHANGED <<conv_state, user_data, chat_data, now, update, last_call>>

\* clean_input applied to its own result
CallCleanAgain ==
    /\ probe.fn = "clean_input"
    /\ probe' = [probe EXCEPT !.fn = "clean_input_twice",
                              !.twice = clean_input(probe.cleaned)]
    /\ UNCHANGED <<conv_state, user_data, chat_data, now, update, last_call>>

CallValidateCity ==
    /\ probe.fn = "none"
    /\ probe' = [probe EXCEPT !.fn = "validate_city_name",
                              !.valid = validate_city_name(probe.text)]
    /\ UNCHANGED <<conv_state, user_data, chat_data, now, update, last_call>>

CallValidateQuestion ==
    /\ probe.fn = "none"
    /\ probe' = [probe EXCEPT !.fn = "validate_question",
                              !.valid = validate_question(probe.text)]
    /\ UNCHANGED <<conv_state, user_data, chat_data, now, update, last_call>>

PureNext ==
    \/ CallClean
    \/ CallCleanAgain
    \/ CallValidateCity
    \/ CallValidateQuestion

PureSpec == PureInit /\ [][PureNext]_vars

----------------------------------------------------------------------------
(* fetch_ai_response called directly on the content of a successful answer *)

\* the budgets of the four call sites
Budgets == {MaxTokens(h) : h \in {"tips", "water", "prep", "ask"}}

\* contents: every text of up to ContentLen letters, asterisks and newlines,
\* and for each budget texts at and around it
ContentTexts ==
    UNION {[1..n -> {"a", "*", "\n"}] : n \in 0..ContentLen}
        \cup UNION {{Rep("a", m), Rep("a", m + 1),
                     <<"*", "*">> \o Rep("a", m - 2) \o <<"*", "*">>,
                     Rep("a", m - 1) \o <<"\n", "\n", "\n">>} : m \in Budgets}

ContentInit ==
    /\ conv_state = [k \in Convs |-> END]
    /\ user_data = [u \in Users |-> [weather_data |-> Absent, last_request |-> Absent]]
    /\ chat_data = [c \in Chats |-> {}]
    /\ now = 0
    /\ update = NoUpdate
    /\ last_call = [k \in Convs |-> {}]
    /\ \E c \in ContentTexts : probe = [NoProbe EXCEPT !.text = c]

CallFetchAI(max_tokens) ==
    /\ probe.fn = "none"
    /\ probe' = [probe EXCEPT !.fn = "fetch_ai_response",
                              !.max_tokens = max_tokens,
                              !.cleaned = format_response(probe.text, max_tokens)]
    /\ UNCHANGED <<conv_state, user_data, chat_data, now, update, last_call>>

ContentNext == \E m \in Budgets : CallFetchAI(m)

ContentSpec == ContentInit /\ [][ContentNext]_vars

----------------------------------------------------------------------------
(* Executions that go on *)

\* a lookup in flight comes back: requests.get is given a timeout
\* (src/app.py:195, 231) and every exception of a lookup is caught
Returns ==
    \/ \E o \in WeatherOutcomes : WeatherReturn(o)
    \/ \E o \in AIOutcomes : AIReturn(o)
    \/ \E o \in NewsOutcomes : NewsReturn(o)

\* executions of one conversation, with the few inputs, in which time
\* passes, handlers return and updates keep coming
LiveNext ==
    \/ \E k \in OneConv : Start(k)
    \/ \E k \in OneConv : Cancel(k)
    \/ \E k \in OneConv, d \in FewButtons : Button(k, d)
    \/ \E k \in OneConv, t \in FewTexts : WeatherText(k, t)
    \/ \E k \in OneConv, t \in FewTexts : QuestionText(k, t)
    \/ \E k \in OneConv, t \in FewTexts : EventsText(k, t)
    \/ \E o \in WeatherOutcomes : WeatherReturn(o)
    \/ \E o \in AIOutcomes : AIReturn(o)
    \/ \E o \in NewsOutcomes : NewsReturn(o)
    \/ NoAnswer
    \/ \E k \in OneConv, d \in FewButtons : IgnoredButton(k, d)
    \/ \E k \in OneConv, t \in FewTexts : IgnoredText(k, t)
    \/ \E k \in OneConv : IgnoredCancel(k)
    \/ Tick

LiveSpec ==
    Init /\ [][LiveNext]_vars
         /\ WF_vars(Tick) /\ WF_vars(Returns) /\ WF_vars(LiveNext)

----------------------------------------------------------------------------
(* Properties *)

\* the conversation and the user of the update dispatched last
ThisConv == update.conv
Handling(event) == update.event = event /\ update.phase /= "none"

\* the text the state's handler validates, and whether it passes
Sanitized == clean_input(update.text)
PassesValidation(state, text) ==
    CASE state = WEATHER_LOCATION -> validate_city_name(text)
      [] state = ASK_QUESTION -> validate_question(text)
      [] state = EVENTS_LOCATION -> text = << >> \/ validate_city_name(text)
      [] OTHER -> FALSE

\* how a lookup can fail, by capability
FailureKinds == {"timeout", "http_error", "no_result", "bad_json",
                 "request_error", "no_response_key",
                 "no_articles", "url_error", "other_error"}

A60 == Rep("a", 60)
CebuCity == <<"a", " ", "a">>

\* C1: a "back" button press in MainMenu or in any awaiting state is handled
\* at once, without a lookup: the reply is the main-menu render and the
\* conversation is in MainMenu, whatever user_data holds.
C1_BackYieldsMainMenu ==
    (Handling("button") /\ update.data = "back" /\ update.from \in States)
        => /\ update.phase = "done"
           /\ update.cap = ""
           /\ update.reply /= Absent
           /\ update.reply[1].msg = "main_menu"
           /\ update.reply[1].markup = "main_menu"
           /\ conv_state[ThisConv] = MAIN_MENU

C1_Witness ==
    /\ Handling("button") /\ update.data = "back"
    /\ update.from = ASK_QUESTION
    /\ user_data[ThisConv[2]].weather_data /= Absent
    /\ conv_state[ThisConv] = MAIN_MENU

\* C2: in MainMenu the buttons "weather", "ask" and "events" are answered at
\* once with the prompt of their awaiting state, which becomes the
\* conversation's state; no lookup is made, whatever user_data holds.
C2_PromptTransitions ==
    (Handling("button") /\ update.from = MAIN_MENU
        /\ update.data \in {"weather", "ask", "events"})
        => /\ update.phase = "done"
           /\ update.cap = ""
           /\ update.reply /= Absent
           /\ update.reply[1].markup = "back_button"
           /\ update.data = "weather" =>
                 /\ conv_state[ThisConv] = WEATHER_LOCATION
                 /\ update.reply[1].msg = "enter_city_weather"
           /\ update.data = "ask" =>
                 /\ conv_state[ThisConv] = ASK_QUESTION
                 /\ update.reply[1].msg = "enter_question"
           /\ update.data = "events" =>
                 /\ conv_state[ThisConv] = EVENTS_LOCATION
                 /\ update.reply[1].msg = "enter_city_events"

C2_Witness ==
    /\ Handling("button") /\ update.from = MAIN_MENU /\ update.data = "events"
    /\ user_data[ThisConv[2]].weather_data /= Absent
    /\ conv_state[ThisConv] = EVENTS_LOCATION

\* C3: when the lookup of a text message fails, in whichever way, a weather
\* lookup leaves the conversation in AwaitingWeatherLocation with the retry
\* reply, and an AI or news lookup sends the lookup's apology and moves the
\* conversation to MainMenu.
C3_LookupFailure ==
    (Handling("text") /\ update.phase = "done" /\ update.answer \in FailureKinds)
        => /\ update.reply /= Absent
           /\ update.from = WEATHER_LOCATION =>
                 /\ conv_state[ThisConv] = WEATHER_LOCATION
                 /\ update.reply[1].msg = "weather_not_found"
           /\ update.from \in {ASK_QUESTION, EVENTS_LOCATION} =>
                 /\ conv_state[ThisConv] = MAIN_MENU
                 /\ update.reply[1].msg \in ApologyTexts

C3_Witness ==
    /\ Handling("text") /\ update.phase = "done"
    /\ update.from = WEATHER_LOCATION
    /\ update.answer = "timeout"
    /\ conv_state[ThisConv] = WEATHER_LOCATION

\* C4: a text message whose sanitized text fails the validation of its
\* awaiting state is answered at once with the state's hint and leaves the
\* conversation in that state; a city of 60 letters gets the city hint, which
\* names the 50-character limit.
C4_InvalidStays ==
    /\ (Handling("text") /\ update.from \in AwaitingStates
            /\ ~PassesValidation(update.from, Sanitized))
          => /\ update.phase = "done"
             /\ conv_state[ThisConv] = update.from
             /\ update.reply /= Absent
             /\ update.reply[1].msg =
                   (IF update.from = ASK_QUESTION THEN "invalid_question"
                                                  ELSE "invalid_city")
    /\ (Handling("text") /\ update.from = WEATHER_LOCATION /\ update.text = A60)
          => /\ update.phase = "done"
             /\ conv_state[ThisConv] = WEATHER_LOCATION
             /\ update.reply /= Absent
             /\ update.reply[1].msg = "invalid_city"

C4_Witness ==
    /\ Handling("text") /\ update.from = WEATHER_LOCATION /\ update.text = A60
    /\ conv_state[ThisConv] = WEATHER_LOCATION

\* C5: a lookup made for a text message carries a text that passed the
\* state's validator (a city for weather, a question for the AI, a city or
\* nothing for the news), and a text message that fails it makes no lookup.
C5_NoInvalidLookup ==
    /\ (Handling("text") /\ update.cap /= "")
          => /\ update.arg = Sanitized
             /\ PassesValidation(update.from, update.arg)
             /\ update.cap = "weather" => validate_city_name(update.query)
             /\ update.cap = "ai" => update.query = update.arg
             /\ update.cap = "news" => update.query = update.arg
    /\ (Handling("text") /\ update.from \in AwaitingStates
            /\ ~PassesValidation(update.from, Sanitized))
          => update.cap = ""

C5_Witness ==
    /\ Handling("text") /\ update.phase = "lookup"
    /\ update.cap = "ai"
    /\ update.text = <<"a", "@", "a">>
    /\ update.query = <<"a", "a">>

\* the payload the weather lookup of the update answered with, which the
\* handler stored
Stored == user_data[ThisConv[2]].weather_data
WeatherAnswered ==
    /\ Handling("text") /\ update.phase = "done"
    /\ update.from = WEATHER_LOCATION
    /\ update.answer = "ok"
    /\ Stored /= Absent
ShowsTemperatureAndHumidity ==
    /\ update.reply /= Absent
    /\ update.reply[1].msg = "weather"
    /\ update.reply[1].body.temperature = Stored[1].temperature
    /\ update.reply[1].body.humidity = Stored[1].humidity

\* C6 as stated: a valid city and a weather payload with a temperature and a
\* humidity yield MainMenu and a reply that shows both.
C6_AnyPayloadRenders ==
    (WeatherAnswered /\ {"temperature", "humidity"} \subseteq Stored[1].fields)
        => /\ conv_state[ThisConv] = MAIN_MENU
           /\ ShowsTemperatureAndHumidity

\* C6, amended: a valid city and a weather payload that holds every field the
\* reply renders yield MainMenu and a reply that shows the payload's
\* temperature and humidity.
C6_CompletePayloadRenders ==
    (WeatherAnswered /\ RenderedFields \subseteq Stored[1].fields)
        => /\ conv_state[ThisConv] = MAIN_MENU
           /\ ShowsTemperatureAndHumidity

C6_Witness ==
    /\ WeatherAnswered
    /\ update.text = CebuCity
    /\ RenderedFields \subseteq Stored[1].fields
    /\ conv_state[ThisConv] = MAIN_MENU
    /\ update.reply[1].body.temperature = 312
    /\ update.reply[1].body.humidity = 70

\* C7: a conversation makes no lookup for an update dispatched less than the
\* cooldown after the update of its previous lookup.
C7_LookupSkippedInCooldown ==
    [][(update'.phase = "lookup" /\ update.phase /= "lookup")
          => \A t \in last_call[update'.conv] : now - t >= COOLDOWN]_vars

\* C8 as stated: /cancel in any of the four states sends the farewell and
\* leaves the conversation in MainMenu.
C8_CancelYieldsMainMenu ==
    (Handling("cancel") /\ update.from \in States)
        => /\ update.phase = "done"
           /\ update.reply /= Absent
           /\ update.reply[1].msg = "farewell"
           /\ conv_state[ThisConv] = MAIN_MENU

\* C8, amended: /cancel in any of the four states sends the farewell, with
\* the main-menu keyboard, and ends the conversation: it has no state, and no
\* button press is handled for it.
C8_CancelEndsConversation ==
    (Handling("cancel") /\ update.from \in States)
        => /\ update.phase = "done"
           /\ update.reply /= Absent
           /\ update.reply[1].msg = "farewell"
           /\ update.reply[1].markup = "main_menu"
           /\ conv_state[ThisConv] = END
           /\ \A d \in ButtonData : ~TakesButton(conv_state[ThisConv], d)

C8_Witness ==
    /\ Handling("cancel")
    /\ update.from = WEATHER_LOCATION
    /\ update.phase = "done"
    /\ conv_state[ThisConv] = END

\* C9: /start is handled wherever the conversation is (not started, in any
\* of the four states, ended by /cancel): the reply is the welcome with the
\* main menu and the conversation is in MainMenu.
C9_StartYieldsMainMenu ==
    Handling("start")
        => /\ update.phase = "done"
           /\ update.from \in States \cup {END}
           /\ update.reply /= Absent
           /\ update.reply[1].msg = "welcome"
           /\ update.reply[1].markup = "main_menu"
           /\ conv_state[ThisConv] = MAIN_MENU

C9_Witness ==
    /\ Handling("start")
    /\ update.from = EVENTS_LOCATION
    /\ conv_state[ThisConv] = MAIN_MENU

\* C10: after /start the user's stored weather payload and last-request time
\* are absent.
C10_StartClearsContext ==
    Handling("start")
        => /\ user_data[ThisConv[2]].weather_data = Absent
           /\ user_data[ThisConv[2]].last_request = Absent

\* C11: when handling an update raises, the reply is the generic apology and
\* the conversation is in MainMenu, never left in an awaiting state.
C11_ErrorForcesMainMenu ==
    (update.phase = "done" /\ update.raised)
        => /\ update.reply = Some(ErrorReply)
           /\ conv_state[ThisConv] = MAIN_MENU

\* the buttons of MainMenu that only render content
ContentButtons == {"tips", "water", "disaster", "laws", "about"}
                      \cup {d \in ButtonData : IsPrep(d)}
                      \cup (PH_LAWS \cap ButtonData)
PromptButtons == {"back", "weather", "ask", "events"}

\* C12: a button pressed in MainMenu has one next state, fixed by the button:
\* tips, water, disaster, laws, about, a prep_<kind> and a law key are
\* answered with content and the conversation is in MainMenu, during the
\* completion they wait for and after it; a button the menu does not know
\* leaves the conversation in MainMenu too.
C12_ContentYieldsMainMenu ==
    (Handling("button") /\ update.from = MAIN_MENU
                        /\ update.data \notin PromptButtons)
        => /\ conv_state[ThisConv] = MAIN_MENU
           /\ update.phase \in {"lookup", "done"}
           /\ (update.phase = "done" /\ update.data \in ContentButtons)
                  => update.reply /= Absent
           /\ update.data \notin ContentButtons
                  => (update.phase = "done" /\ update.reply = Absent)

C12_Witness ==
    /\ Handling("button")
    /\ update.from = MAIN_MENU
    /\ update.data = "prep_flood"
    /\ update.phase = "done"
    /\ update.reply /= Absent
    /\ update.reply[1].markup = "disaster_or_menu"
    /\ conv_state[ThisConv] = MAIN_MENU

\* the user comes back: /start, or the back button where it is handled
UserReturns(k) == Start(k) \/ Button(k, "back")

\* C13 as stated: in an execution in which updates keep coming, a conversation
\* that is in a state is in MainMenu again later.
C13_AlwaysReturnsToMainMenu ==
    \A k \in OneConv :
        (conv_state[k] \in States) ~> (conv_state[k] = MAIN_MENU)

\* C13: in an execution in which the user keeps sending /start or pressing
\* back, the conversation is in MainMenu again and again.
C13_ReturnsWhenUserReturns ==
    \A k \in OneConv :
        []<><<UserReturns(k)>>_vars => []<>(conv_state[k] = MAIN_MENU)

C13_Witness ==
    /\ Handling("button")
    /\ update.data = "back"
    /\ update.from = WEATHER_LOCATION
    /\ update.phase = "done"
    /\ conv_state[ThisConv] = MAIN_MENU
    /\ now = MaxTime

----------------------------------------------------------------------------
(* Properties of the sanitizer, checked on direct calls *)

\* C14: cleaning a cleaned text changes nothing: clean(clean(t)) = clean(t).
C14_CleanIdempotent ==
    probe.fn = "clean_input_twice" => probe.twice = probe.cleaned

\* C15: a text of more than 50 characters is not a valid city.
C15_LongCityInvalid ==
    (probe.fn = "validate_city_name" /\ Len(probe.text) > 50) => ~probe.valid

C15_Witness ==
    /\ probe.fn = "validate_city_name"
    /\ probe.text = Rep("a", 51)
    /\ ~probe.valid

\* C16: a question is invalid when nothing is left of it after trimming and
\* when it has more than 200 characters, and valid in every other case.
C16_QuestionValidity ==
    probe.fn = "validate_question"
        => (probe.valid <=>
               ~(\/ \A i \in 1..Len(probe.text) :
                        probe.text[i] \in {" ", "\t", "\n"}
                 \/ Len(probe.text) > 200))

C16_Witness ==
    /\ probe.fn = "validate_question"
    /\ probe.text = <<" ">> \o Rep("a", 199)
    /\ probe.valid

\* C19: a cleaned text does not begin or end with whitespace, its only
\* whitespace is the single space, no two spaces are adjacent, and each of
\* its characters is a word character, a space or one of , . ! ? -
C19_CleanIsNormalized ==
    probe.fn = "clean_input"
        => LET out == probe.cleaned
           IN  /\ out /= << >> => (out[1] /= " " /\ out[Len(out)] /= " ")
               /\ \A i \in 1..Len(out) : out[i] \notin {"\t", "\n"}
               /\ \A i \in 1..(Len(out) - 1) : ~(out[i] = " " /\ out[i + 1] = " ")
               /\ \A i \in 1..Len(out) :
                      out[i] \in {"a", "b", "C", "0", "_", "n~", " ",
                                  ",", ".", "!", "?", "-"}

\* the ASCII letters and digits of this model, the space, and , . -
AsciiCityChars == {"a", "b", "C", "0", " ", ",", ".", "-"}

\* C20 as stated: a text with a character that is not an ASCII letter, an
\* ASCII digit, a space, a comma, a period or a hyphen is not a valid city.
C20_OnlyAsciiCityChars ==
    (probe.fn = "validate_city_name"
        /\ \E i \in 1..Len(probe.text) : probe.text[i] \notin AsciiCityChars)
        => ~probe.valid

\* C20: a text with a character that is neither a word character (a letter
\* of any script, a digit, the underscore), nor whitespace, nor , . - is not
\* a valid city; an underscore, a tab or a letter outside ASCII is accepted
\* like any letter.
C20_OnlyCityPatternChars ==
    probe.fn = "validate_city_name"
        => /\ (\E i \in 1..Len(probe.text) : probe.text[i] \in {"@", "!", "?", "+"})
                  => ~probe.valid
           /\ (/\ Len(probe.text) \in 1..50
               /\ \A i \in 1..Len(probe.text) :
                      probe.text[i] \in {"a", "_", "\t", "n~", " "})
                  => probe.valid

C20_Witness ==
    /\ probe.fn = "validate_city_name"
    /\ probe.text = <<"a", "_", "n~">>
    /\ probe.valid

----------------------------------------------------------------------------
(* Properties of the dispatch, checked with two conversations *)

\* C17: while the handler of an update is suspended, no other update is
\* handled: the next thing that happens to the dispatch is that this handler
\* finishes, and until then the conversation table and the context it reads
\* and writes are not modified.
C17_OneHandlerAtATime ==
    [][update.phase = "lookup"
          => /\ update'.conv = update.conv
             /\ update'.event = update.event
             /\ update'.data = update.data
             /\ update'.text = update.text
             /\ update'.phase \in {"lookup", "done"}
             /\ update'.phase = "lookup"
                    => UNCHANGED <<conv_state, user_data, chat_data>>]_vars

C17_Witness ==
    /\ update.phase = "lookup"
    /\ update.conv = <<"c2", "u1">>
    /\ update.h = "weather"
    /\ conv_state[<<"c1", "u1">>] = ASK_QUESTION
    /\ Slept

\* C18: while the handler of one conversation waits for a lookup, an update
\* of every other conversation can be handled.
C18_OtherConversationsProceed ==
    update.phase = "lookup"
        => \A k \in Convs \ {update.conv} : ENABLED Start(k)

----------------------------------------------------------------------------
(* Properties of the lookups and of what a handler leaves alone *)

\* C21 as stated: in AwaitingWeatherLocation a text that fails validate_city
\* as received is rejected: the city hint, the same state, no lookup.
C21_ValidateBeforeSanitize ==
    (Handling("text") /\ update.from = WEATHER_LOCATION
        /\ ~validate_city_name(update.text))
        => /\ update.phase = "done"
           /\ update.cap = ""
           /\ update.reply /= Absent
           /\ update.reply[1].msg = "invalid_city"
           /\ conv_state[ThisConv] = WEATHER_LOCATION

\* C21: in AwaitingWeatherLocation the text is sanitized, then validated,
\* then looked up: it is rejected, with no lookup and the state kept, exactly
\* when its sanitized form fails validate_city; a text that fails as
\* received and passes once sanitized ("a@a") is looked up as sanitized.
C21_SanitizeBeforeValidate ==
    (Handling("text") /\ update.from = WEATHER_LOCATION)
        => /\ update.cap = "" <=> ~validate_city_name(clean_input(update.text))
           /\ update.cap = ""
                  => /\ update.phase = "done"
                     /\ update.reply /= Absent
                     /\ update.reply[1].msg = "invalid_city"
                     /\ conv_state[ThisConv] = WEATHER_LOCATION
           /\ update.text = <<"a", "@", "a">>
                  => (update.cap = "weather" /\ update.arg = <<"a", "a">>)

C21_Witness ==
    /\ Handling("text")
    /\ update.from = WEATHER_LOCATION
    /\ update.text = <<"a", "@", "a">>
    /\ ~validate_city_name(update.text)
    /\ update.phase = "lookup"
    /\ update.cap = "weather"

\* C22: however the remote call of a lookup fails (timeout, transport error,
\* HTTP error status, malformed body, empty result), the binding returns a
\* failure value to the handler: the handler does not raise, and what it
\* replies is the binding's apology or, for the weather, the retry reply.
C22_LookupsNeverRaise ==
    (update.phase = "done" /\ update.cap /= "" /\ update.answer \in FailureKinds)
        => /\ ~update.raised
           /\ update.reply /= Absent
           /\ update.reply[1].msg \in ApologyTexts \cup {"weather_not_found"}
           /\ update.reply[1].msg /= "unexpected_error"

C22_Witness ==
    /\ update.phase = "done"
    /\ update.cap = "news"
    /\ update.answer = "other_error"
    /\ ~update.raised
    /\ update.reply = Some(Reply("news_error", "events_or_menu", NoBody))

\* C23 as stated: an AI lookup that fails in transport is attempted more than
\* once and at most 5 times; a weather or news lookup is attempted once.
C23_OnlyAIRetries ==
    (update.phase = "done" /\ update.cap /= "")
        => /\ (update.cap = "ai" /\ update.answer \in {"timeout", "request_error"})
                  => (update.attempts > 1 /\ update.attempts <= 5)
           /\ update.cap \in {"weather", "news"} => update.attempts = 1

\* C23: no lookup is retried: an AI, a weather and a news lookup each send
\* one request, whether it succeeds or fails.
C23_NoLookupRetries ==
    (update.phase = "done" /\ update.cap /= "") => update.attempts = 1

C23_Witness ==
    /\ update.phase = "done"
    /\ update.cap = "ai"
    /\ update.answer = "timeout"
    /\ update.attempts = 1
    /\ update.reply /= Absent
    /\ update.reply[1].msg = "ai_too_long"

\* C24: a lookup whose remote service never answers still returns to its
\* handler, by the timeout of its request: once the handler has slept, the
\* return of the lookup is possible, for the AI, the weather and the news.
C24_SilentLookupReturns ==
    (update.phase = "lookup" /\ update.answer = "no_answer" /\ Slept)
        => ENABLED Returns

\* C25 as stated: the text returned for content c and budget m is c itself
\* when c has at most m characters, and else the first m characters of c
\* followed by "...".
C25_ContentTruncated ==
    probe.fn = "fetch_ai_response"
        => LET c == probe.text
               m == probe.max_tokens
           IN  probe.cleaned = IF Len(c) <= m
                               THEN c
                               ELSE SubSeq(c, 1, m) \o <<".", ".", ".">>

\* C25: the content is first reformatted (a "**bold**" span becomes
\* "*bold*", three or more newlines in a row become two); the text returned
\* is the reformatted content when that has at most m characters, and else
\* its first m characters followed by "...".
C25_FormattedContentTruncated ==
    probe.fn = "fetch_ai_response"
        => LET f == sub_newlines(sub_bold(probe.text, 1))
               m == probe.max_tokens
               out == probe.cleaned
           IN  /\ m \in {1000, 1200, 1500}
               /\ Len(f) <= m => out = f
               /\ Len(f) > m
                      => /\ Len(out) = m + 3
                         /\ SubSeq(out, 1, m) = SubSeq(f, 1, m)
                         /\ SubSeq(out, m + 1, m + 3) = <<".", ".", ".">>
               /\ probe.text = <<"*", "*", "a", "*", "*">> => out = <<"*", "a", "*">>
               /\ probe.text = <<"a", "\n", "\n", "\n", "a">>
                      => out = <<"a", "\n", "\n", "a">>
               /\ (\A i \in 1..Len(probe.text) : probe.text[i] = "a") => f = probe.text

C25_Witness ==
    /\ probe.fn = "fetch_ai_response"
    /\ probe.max_tokens = 1500
    /\ probe.text = Rep("a", 1501)
    /\ probe.cleaned = Rep("a", 1500) \o <<".", ".", ".">>

\* the ConversationContext a handler of conversation k reads and writes:
\* context.user_data, kept per user
ContextOf(k) == user_data[k[2]]

\* C26: handling an update of one conversation leaves the state and the
\* context (stored weather payload, last-request time) of every other
\* conversation as they were, two chats of one user included.
C26_ConversationsIsolated ==
    [][update' /= update
          => \A k \in Convs \ {update'.conv} :
                /\ conv_state'[k] = conv_state[k]
                /\ ContextOf(k)' = ContextOf(k)]_vars

\* C27: the query of a weather lookup is the validated city with each space
\* replaced by "+", so that the words of "Cebu City" stay apart.
C27_QueryKeepsWordsApart ==
    update.cap = "weather"
        => /\ Len(update.query) = Len(update.arg)
           /\ \A i \in 1..Len(update.arg) :
                  update.query[i] = IF update.arg[i] = " " THEN "+" ELSE update.arg[i]

\* C28: the stored weather payload of a user changes only in the step in
\* which the weather lookup of a text message of AwaitingWeatherLocation
\* comes back with a payload, and it becomes that payload; a rejected text,
\* a failed lookup and every other update leave it as it was.
C28_PayloadChangesOnSuccessOnly ==
    [][\A u \in Users :
          user_data'[u].weather_data /= user_data[u].weather_data
              => /\ update.phase = "lookup"
                 /\ update.cap = "weather"
                 /\ update.event = "text"
                 /\ update.from = WEATHER_LOCATION
                 /\ u = update.conv[2]
                 /\ update'.phase = "done"
                 /\ update'.answer = "ok"
                 /\ user_data'[u].weather_data \in {<<p>> : p \in Payloads}]_vars

C28_Witness ==
    /\ user_data["u1"].weather_data /= Absent
    /\ Handling("text")
    /\ update.from = WEATHER_LOCATION
    /\ update.phase = "done"
    /\ update.answer = "timeout"
    /\ conv_state[ThisConv] = WEATHER_LOCATION

\* C29: in an awaiting state a button other than "back" is ignored: no
\* handler takes it, there is no reply and no lookup, and the conversation
\* state and the contexts stay as they were.
C29_StaleButtonsIgnored ==
    [][(/\ update' /= update
        /\ update'.event = "button"
        /\ update'.data /= "back"
        /\ conv_state[update'.conv] \in AwaitingStates)
          => /\ update'.phase = "ignored"
             /\ update'.reply = Absent
             /\ update'.cap = ""
             /\ UNCHANGED <<conv_state, user_data, chat_data>>]_vars

C29_Witness ==
    /\ Handling("button")
    /\ update.data = "prep_flood"
    /\ update.from = EVENTS_LOCATION
    /\ update.phase = "ignored"
    /\ conv_state[ThisConv] = EVENTS_LOCATION

\* C30: a conversation that is not in the table, because it was never
\* started or because /cancel ended it, takes /start only: a button press, a
\* text message and /cancel are ignored, with no reply, no lookup and no
\* state, and /start puts it in MainMenu; in MainMenu a text message is
\* ignored likewise.
C30_OnlyStartEnters ==
    [][update' /= update
          => LET state == conv_state[update'.conv]
             IN  /\ (\/ state = END /\ update'.event \in {"button", "text", "cancel"}
                     \/ state = MAIN_MENU /\ update'.event = "text")
                        => /\ update'.phase = "ignored"
                           /\ update'.reply = Absent
                           /\ update'.cap = ""
                           /\ UNCHANGED <<conv_state, user_data, chat_data>>
                 /\ (state = END /\ update'.event = "start")
                        => conv_state'[update'.conv] = MAIN_MENU]_vars

C30_Witness ==
    /\ Handling("text")
    /\ update.text = <<"a">>
    /\ update.from = END
    /\ update.phase = "ignored"
    /\ conv_state[ThisConv] = END
    /\ user_data[ThisConv[2]].weather_data /= Absent

=============================================================================
